---------------------------- MODULE Spec2Model ----------------------------
(***************************************************************************)
(* Model of the sneaker price API:                                         *)
(*   - src/sneaker_prices.py : the three source adapters (GoatScraper,     *)
(*     KicksDBClient, ConstructorIOClient) and the fallback orchestrator   *)
(*     SneakerPriceFetcher.get_prices;                                     *)
(*   - src/example_flask.py  : the `cached` decorator (response cache) and *)
(*     the /api/prices endpoint.                                           *)
(*                                                                         *)
(* Conventions.                                                            *)
(*   Python None is the empty tuple <<>>; a present optional value x is    *)
(*   <<x>>.  A dict is a TLA+ function; the empty dict is the function of  *)
(*   empty domain.  Money amounts are naturals in thousandths of a dollar  *)
(*   (tenths of a cent), so that a float such as 0.4 cents is a value.     *)
(***************************************************************************)
EXTENDS Integers, Sequences, FiniteSets, TLC

VARIABLES
    \* ---- one request through SneakerPriceFetcher.get_prices -------------
    apiKey,      \* KICKSDB_API_KEY ("" when not configured)
    fpc,         \* position of the orchestrator coroutine
    result,      \* get_prices' local `result` (None or <<SneakerPriceResult>>)
    slug,        \* GoatScraper.get_prices' local `slug`
    product,     \* KicksDBClient.get_prices' local `product`
    calls,       \* adapters invoked so far, in invocation order
    returned,    \* adapters that have returned so far, in return order
    outcomes,    \* what each adapter returned: adapter name -> None | <<result>>
    faults,      \* failed outbound calls so far: [adapter, phase, kind]
    netCalls,    \* outbound calls made so far, in order: [adapter, phase]
    ret,         \* value returned by SneakerPriceFetcher.get_prices
    response,    \* HTTP status answered by the /api/prices endpoint (0: none yet)
    body,        \* what a 200 answer holds (None: no 200 answer)
    \* ---- the response cache shared by the request threads ---------------
    cache,       \* _cache in insertion order: entries [key, data, ts]
    clock,       \* time.time(), in seconds
    computed,    \* number of calls of a wrapped handler so far
    requests,    \* number of requests begun so far
    tpc,         \* per thread: position in `wrapper`
    tkey,        \* per thread: cache_key
    tnow,        \* per thread: now
    tentry,      \* per thread: entry (None before line 41)
    tresult,     \* per thread: result (0 before line 44)
    toldest,     \* per thread: oldest_key (None before line 48)
    tanswer,     \* per thread: what the request answered (None: nothing yet)
    written,     \* entries stored since the start, in order
    evicted,     \* entries deleted since the start, in order
    handled,     \* calls of a wrapped handler so far: [key, status, ts]
    \* ---- the sku of a request on its way through the searches -----------
    skuIn,       \* the sku of the request path
    skuNorm,     \* get_prices' `sku` once normalized (None before line 584)
    spc,         \* how far the sku has got
    search,      \* the search performed: [adapter, given, records, selected]
    resultSku,   \* the sku field of the result built (None: none yet)
    \* ---- one call of GoatScraper._deep_find ------------------------------
    tree,        \* the `data` the search is called on
    found,       \* what the call returned (None before it has returned)
    dpc          \* "start" before the call, "done" after it

fetchVars == <<apiKey, fpc, result, slug, product, calls, returned, outcomes,
               faults, netCalls, ret, response, body>>

cacheVars == <<cache, clock, computed, requests, tpc, tkey, tnow, tentry,
               tresult, toldest, tanswer, written, evicted, handled>>

skuVars == <<skuIn, skuNorm, spc, search, resultSku>>

findVars == <<tree, found, dpc>>

vars == <<fetchVars, cacheVars, skuVars, findVars>>

(***************************************************************************)
(* Optional values and dicts                                               *)
(***************************************************************************)
None == <<>>
Some(x) == <<x>>

\* bool(x) of an optional number: None and 0 are falsy
Truthy(o) == o # None /\ o[1] # 0

EmptyDict == [k \in {} |-> 0]

\* d[k] = v
Put(d, k, v) == [x \in (DOMAIN d) \cup {k} |-> IF x = k THEN v ELSE d[x]]

Min(S) == CHOOSE x \in S : \A y \in S : x <= y

(***************************************************************************)
(* Bounds of the inputs                                                    *)
(***************************************************************************)
MaxVariants == 2      \* longest variants / price-data list of a payload
MaxCandidates == 2    \* longest candidate list of a search payload

\* amounts a payload may carry, in thousandths of a dollar (0: missing/falsy)
PriceInputs == {0, 4, 120000, 125000}
SizeInputs == {"", "9", "9.5"}
SlugInputs == {"", "air-jordan-1"}

SeqsUpTo(S, n) == UNION {[1..m -> S] : m \in 0..n}

(***************************************************************************)
(* Ways an outbound call fails                                             *)
(***************************************************************************)
\* raised as exceptions: by the HTTP client (connection errors and timeouts
\* alike) or by the code that reads the payload
Exceptions == {"transport_error", "malformed_payload"}
\* answered by the source, tested with `resp.status_code != 200`
NonSuccess == "non_success_status"
Failures == Exceptions \cup {NonSuccess}

(***************************************************************************)
(* SneakerPriceResult                                                      *)
(***************************************************************************)
SneakerPriceResult(src, slg, pbs, low) ==
    [source |-> src, slug |-> slg, prices_by_size |-> pbs, lowest_ask |-> low]

\* variant: a result counts only when it also carries a lowest ask
HasPricesAndAsk(r) ==
    r # None /\ DOMAIN r[1].prices_by_size # {} /\ Truthy(r[1].lowest_ask)

\* `if result and result.prices_by_size`: a result is present and has sizes
HasPrices(r) == r # None /\ DOMAIN r[1].prices_by_size # {}

(***************************************************************************)
(* Source 1: GoatScraper                                                   *)
(***************************************************************************)
\* a search candidate: whether its normalized sku equals the query's, and the
\* slug of its data ("" when the field is missing or empty: both are falsy)
GoatCandidates == [match : BOOLEAN, slug : SlugInputs]

GoatSearchOutcomes ==
    {[status |-> f, results |-> <<>>] : f \in Failures}
    \cup {[status |-> "ok", results |-> r] :
            r \in SeqsUpTo(GoatCandidates, MaxCandidates)}

\* the `except Exception` of search_by_sku
GoatSearchCatches(e) == e \in Exceptions

\* search_by_sku on a 200 answer: the slug of the first exact match, else of
\* the first candidate, None ("") without candidates
GoatSelectSlug(results) ==
    IF results = <<>> THEN ""
    ELSE LET hits == {i \in 1..Len(results) : results[i].match}
         IN  IF hits # {} THEN results[Min(hits)].slug ELSE results[1].slug

GoatSearchBySku(o) ==
    IF o.status = "ok" THEN GoatSelectSlug(o.results) ELSE ""

\* round(price_cents / 100, 2): to whole cents (the inputs hold no tie)
RoundToCents(m) == 10 * ((m + 5) \div 10)

\* a variant of the product: its size ("" when missing) and its price in cents
\* (0 when every price field is missing, falsy or not a number)
GoatVariants == [size : SizeInputs, cents : PriceInputs]

GoatProducts ==
    [variants : SeqsUpTo(GoatVariants, MaxVariants),
     sizeRange : {<<>>, <<"9">>, <<"9", "9.5">>},
     lowestPriceCents : {0, 120000}]

RECURSIVE GoatVariantPrices(_, _)
GoatVariantPrices(variants, acc) ==
    IF variants = <<>> THEN acc
    ELSE LET v == Head(variants)
         IN  GoatVariantPrices(Tail(variants),
                IF v.size # "" /\ v.cents # 0
                THEN Put(acc, v.size, Put(EmptyDict, "goat", RoundToCents(v.cents)))
                ELSE acc)

\* the sizeRange fallback of _parse_product
GoatRangePrices(p) ==
    IF p.sizeRange # <<>> /\ p.lowestPriceCents # 0
    THEN [s \in {p.sizeRange[i] : i \in 1..Len(p.sizeRange)} |->
            Put(EmptyDict, "goat", RoundToCents(p.lowestPriceCents))]
    ELSE EmptyDict

GoatPricesBySize(p) ==
    LET fromVariants == GoatVariantPrices(p.variants, EmptyDict)
    IN  IF DOMAIN fromVariants # {} THEN fromVariants ELSE GoatRangePrices(p)

\* variant: lowest_ask starts at 0 instead of None
GoatLowestAskZero(pbs) ==
    LET all_prices == {pbs[s]["goat"] : s \in {x \in DOMAIN pbs : pbs[x]["goat"] # 0}}
    IN  IF DOMAIN pbs # {} /\ all_prices # {} THEN Some(Min(all_prices)) ELSE Some(0)

\* "Lowest ask global" of _parse_product
GoatLowestAsk(pbs) ==
    LET all_prices == {pbs[s]["goat"] : s \in {x \in DOMAIN pbs : pbs[x]["goat"] # 0}}
    IN  IF DOMAIN pbs # {} /\ all_prices # {} THEN Some(Min(all_prices)) ELSE None

GoatParseProduct(p, slg) ==
    LET pbs == GoatPricesBySize(p)
    IN  SneakerPriceResult("goat", slg, pbs, GoatLowestAsk(pbs))

\* the product page: a failure, a page without usable product data, or a product
GoatPageOutcomes ==
    {[status |-> f, product |-> None] : f \in Failures \cup {"no_product_data"}}
    \cup {[status |-> "ok", product |-> Some(p)] : p \in GoatProducts}

\* the `except Exception` of scrape_product_page
GoatPageCatches(e) == e \in Exceptions

GoatScrapeProductPage(o, slg) ==
    IF o.status = "ok" THEN Some(GoatParseProduct(o.product[1], slg)) ELSE None

(***************************************************************************)
(* Source 2: KicksDBClient                                                 *)
(***************************************************************************)
\* variant: the client counts as configured whatever its key
IsConfiguredAlways(key) == TRUE

\* KicksDBClient.is_configured
IsConfigured(key) == key # ""

\* a product of the search answer: whether its normalized sku equals the
\* query, its id (0 when missing or falsy) and its min_price (None when missing)
KicksProducts ==
    [match : BOOLEAN, id : {0, 7}, min_price : {None, Some(0), Some(110000)}]

KicksSearchOutcomes ==
    {[status |-> f, products |-> <<>>] : f \in Failures}
    \cup {[status |-> "ok", products |-> r] :
            r \in SeqsUpTo(KicksProducts, MaxCandidates)}

\* the `except Exception` of KicksDBClient.search
KicksSearchCatches(e) == e \in Exceptions

\* KicksDBClient.search on a 200 answer
KicksSelectProduct(products) ==
    IF products = <<>> THEN None
    ELSE LET hits == {i \in 1..Len(products) : products[i].match}
         IN  IF hits # {} THEN Some(products[Min(hits)]) ELSE Some(products[1])

KicksSearch(o) ==
    IF o.status = "ok" THEN KicksSelectProduct(o.products) ELSE None

\* an entry of the price answer: its size ("" when missing) and the two
\* prices (0 when missing or falsy)
KicksEntries ==
    [size : SizeInputs, stockx_price : {0, 125000}, goat_price : {0, 120000}]

KicksPricesOutcomes ==
    {[status |-> f, data |-> <<>>] : f \in Failures}
    \cup {[status |-> "ok", data |-> d] : d \in SeqsUpTo(KicksEntries, MaxVariants)}

\* variant: only the HTTP client's errors are caught
KicksPricesCatchesTransport(e) == e = "transport_error"

\* the `except Exception` of KicksDBClient.get_prices
KicksPricesCatches(e) == e \in Exceptions

KicksEntryPrices(entry) ==
    LET withStockx == IF entry.stockx_price # 0
                      THEN Put(EmptyDict, "stockx", entry.stockx_price)
                      ELSE EmptyDict
    IN  IF entry.goat_price # 0 THEN Put(withStockx, "goat", entry.goat_price)
        ELSE withStockx

RECURSIVE KicksPricesBySize(_, _)
KicksPricesBySize(data, acc) ==
    IF data = <<>> THEN acc
    ELSE LET entry == Head(data)
         IN  KicksPricesBySize(Tail(data),
                IF entry.size # "" THEN Put(acc, entry.size, KicksEntryPrices(entry))
                ELSE acc)

\* the answer of KicksDBClient.get_prices once the detail call has ended
KicksDetailResult(o, prod) ==
    IF o.status = NonSuccess
    THEN Some(SneakerPriceResult("kicksdb", "", EmptyDict, prod.min_price))
    ELSE IF o.status = "ok"
    THEN Some(SneakerPriceResult("kicksdb", "",
                                 KicksPricesBySize(o.data, EmptyDict), prod.min_price))
    ELSE None

(***************************************************************************)
(* Source 3: ConstructorIOClient                                           *)
(***************************************************************************)
ConstructorCandidates ==
    [match : BOOLEAN, slug : {"air-jordan-1"}, lowest_price_cents : {0, 115000}]

ConstructorOutcomes ==
    {[status |-> f, results |-> <<>>] : f \in Failures}
    \cup {[status |-> "ok", results |-> r] :
            r \in SeqsUpTo(ConstructorCandidates, MaxCandidates)}

\* the `except Exception` of ConstructorIOClient.get_prices
ConstructorCatches(e) == e \in Exceptions

ConstructorSelectProduct(results) ==
    LET hits == {i \in 1..Len(results) : results[i].match}
    IN  IF hits # {} THEN results[Min(hits)] ELSE results[1]

\* lowest_cents / 100 if lowest_cents else None
ConstructorLowestAsk(cents) == IF cents # 0 THEN Some(cents) ELSE None

\* variant: the global price is filed under a size
ConstructorGetPricesSized(o) ==
    IF o.status # "ok" \/ o.results = <<>> THEN None
    ELSE LET prod == ConstructorSelectProduct(o.results)
         IN  Some(SneakerPriceResult("goat_search", prod.slug,
                    Put(EmptyDict, "9", Put(EmptyDict, "goat", prod.lowest_price_cents)),
                    ConstructorLowestAsk(prod.lowest_price_cents)))

\* ConstructorIOClient.get_prices once its one call has ended
ConstructorGetPrices(o) ==
    IF o.status # "ok" \/ o.results = <<>> THEN None
    ELSE LET prod == ConstructorSelectProduct(o.results)
         IN  Some(SneakerPriceResult("goat_search", prod.slug, EmptyDict,
                                     ConstructorLowestAsk(prod.lowest_price_cents)))

(***************************************************************************)
(* SneakerPriceFetcher.get_prices, one step per outbound call              *)
(***************************************************************************)
Sources == {"goat", "kicksdb", "constructor"}

\* variant: a source that gave no per-size prices is tried again
NextSourceRetry(after, key) == after

\* the source tried after `after` has returned without per-size prices
NextSource(after, key) ==
    IF after = "goat" /\ IsConfigured(key) THEN "kicksdb" ELSE "constructor"

\* where the coroutine waits once source a has been invoked
FirstCall(a) ==
    CASE a = "goat" -> "goat_search"
      [] a = "kicksdb" -> "kicks_search"
      [] OTHER -> "constructor"

\* the end of get_prices once Constructor.io has answered `fallback`
Merge(res, fallback) ==
    IF fallback # None
    THEN IF res # None
         THEN Some([res[1] EXCEPT !.lowest_ask =
                        IF Truthy(@) THEN @ ELSE fallback[1].lowest_ask])
         ELSE fallback
    ELSE None

\* an outbound call (client.get) of source a
Outbound(a, phase) == [adapter |-> a, phase |-> phase]

Fault(a, phase, status) ==
    IF status \in Failures
    THEN {[adapter |-> a, phase |-> phase, kind |-> status]}
    ELSE {}

\* an exception no handler catches leaves get_prices
Raise ==
    /\ fpc' = "raised"
    /\ UNCHANGED <<result, slug, product, calls, returned, outcomes, ret>>

\* source a has returned r to get_prices, which returns it or goes on
SourceReturned(a, r) ==
    /\ returned' = Append(returned, a)
    /\ outcomes' = [outcomes EXCEPT ![a] = r]
    /\ result' = r
    /\ IF HasPrices(r)
       THEN /\ fpc' = "returned"
            /\ ret' = r
            /\ calls' = calls
       ELSE /\ fpc' = FirstCall(NextSource(a, apiKey))
            /\ calls' = Append(calls, NextSource(a, apiKey))
            /\ ret' = ret

FetchBegin(internal_fault) ==
    /\ fpc = "idle"
    /\ IF internal_fault
       THEN fpc' = "raised" /\ calls' = calls
       ELSE fpc' = FirstCall("goat") /\ calls' = <<"goat">>
    /\ UNCHANGED <<apiKey, result, slug, product, returned, outcomes, faults,
                   netCalls, ret, response, body>>
    /\ UNCHANGED <<cacheVars, skuVars, findVars>>

GoatSearchStep(o) ==
    /\ fpc = "goat_search"
    /\ faults' = faults \cup Fault("goat", "search", o.status)
    /\ netCalls' = Append(netCalls, Outbound("goat", "search"))
    /\ IF o.status \in Exceptions /\ ~GoatSearchCatches(o.status)
       THEN Raise
       ELSE IF GoatSearchBySku(o) = ""
       THEN SourceReturned("goat", None) /\ UNCHANGED <<slug, product>>
       ELSE /\ fpc' = "goat_page"
            /\ slug' = GoatSearchBySku(o)
            /\ UNCHANGED <<result, product, calls, returned, outcomes, ret>>
    /\ UNCHANGED <<apiKey, response, body>>
    /\ UNCHANGED <<cacheVars, skuVars, findVars>>

GoatPageStep(o) ==
    /\ fpc = "goat_page"
    /\ faults' = faults \cup Fault("goat", "detail", o.status)
    /\ netCalls' = Append(netCalls, Outbound("goat", "detail"))
    /\ IF o.status \in Exceptions /\ ~GoatPageCatches(o.status)
       THEN Raise
       ELSE SourceReturned("goat", GoatScrapeProductPage(o, slug))
            /\ UNCHANGED <<slug, product>>
    /\ UNCHANGED <<apiKey, response, body>>
    /\ UNCHANGED <<cacheVars, skuVars, findVars>>

\* KicksDBClient.get_prices up to its detail call; without a key it returns
\* None at once (line 403, and line 375 of search)
KicksSearchStep(o) ==
    /\ fpc = "kicks_search"
    /\ IF ~IsConfigured(apiKey)
       THEN /\ SourceReturned("kicksdb", None)
            /\ UNCHANGED <<slug, product, faults, netCalls>>
       ELSE /\ faults' = faults \cup Fault("kicksdb", "search", o.status)
            /\ netCalls' = Append(netCalls, Outbound("kicksdb", "search"))
            /\ IF o.status \in Exceptions /\ ~KicksSearchCatches(o.status)
               THEN Raise
               ELSE IF KicksSearch(o) = None \/ KicksSearch(o)[1].id = 0
               THEN SourceReturned("kicksdb", None) /\ UNCHANGED <<slug, product>>
               ELSE /\ fpc' = "kicks_prices"
                    /\ product' = KicksSearch(o)
                    /\ UNCHANGED <<result, slug, calls, returned, outcomes, ret>>
    /\ UNCHANGED <<apiKey, response, body>>
    /\ UNCHANGED <<cacheVars, skuVars, findVars>>

KicksPricesStep(o) ==
    /\ fpc = "kicks_prices"
    /\ faults' = faults \cup Fault("kicksdb", "detail", o.status)
    /\ netCalls' = Append(netCalls, Outbound("kicksdb", "detail"))
    /\ IF o.status \in Exceptions /\ ~KicksPricesCatches(o.status)
       THEN Raise
       ELSE SourceReturned("kicksdb", KicksDetailResult(o, product[1]))
            /\ UNCHANGED <<slug, product>>
    /\ UNCHANGED <<apiKey, response, body>>
    /\ UNCHANGED <<cacheVars, skuVars, findVars>>

ConstructorStep(o) ==
    /\ fpc = "constructor"
    /\ faults' = faults \cup Fault("constructor", "search", o.status)
    /\ netCalls' = Append(netCalls, Outbound("constructor", "search"))
    /\ IF o.status \in Exceptions /\ ~ConstructorCatches(o.status)
       THEN Raise
       ELSE /\ returned' = Append(returned, "constructor")
            /\ outcomes' = [outcomes EXCEPT !["constructor"] = ConstructorGetPrices(o)]
            /\ ret' = Merge(result, ConstructorGetPrices(o))
            /\ fpc' = "returned"
            /\ UNCHANGED <<result, slug, product, calls>>
    /\ UNCHANGED <<apiKey, response, body>>
    /\ UNCHANGED <<cacheVars, skuVars, findVars>>

(***************************************************************************)
(* The /api/prices endpoint                                                *)
(***************************************************************************)
\* variant: the `if not result` test is missing
EndpointStatusUnchecked(raised, r) == IF raised THEN 500 ELSE 200

\* status of the answer: 500 on an exception, 404 on `not result`, else 200
EndpointStatus(raised, r) ==
    IF raised THEN 500 ELSE IF r = None THEN 404 ELSE 200

\* the `size` argument of a request ("": none given, or given empty)
SizeArgs == {"", "9", "11"}

\* the answer narrowed to one size (lines 95-103)
SizeScoped(r, size) ==
    LET size_prices == IF size \in DOMAIN r.prices_by_size
                       THEN r.prices_by_size[size] ELSE EmptyDict
    IN  [size |-> size,
         prices |-> IF DOMAIN size_prices # {} THEN Some(size_prices) ELSE None,
         source |-> r.source,
         available |-> DOMAIN size_prices # {}]

\* what a 200 answer holds: the result narrowed to `size` when one is asked
\* for (`if size`), else the whole result
EndpointBody(r, size) ==
    IF size # "" THEN Some([scoped |-> Some(SizeScoped(r, size)), data |-> None])
    ELSE Some([scoped |-> None, data |-> Some(r)])

Respond(size) ==
    /\ fpc \in {"returned", "raised"}
    /\ response' = EndpointStatus(fpc = "raised", ret)
    /\ body' = IF EndpointStatus(fpc = "raised", ret) = 200 /\ ret # None
               THEN EndpointBody(ret[1], size) ELSE None
    /\ fpc' = "responded"
    /\ UNCHANGED <<apiKey, result, slug, product, calls, returned, outcomes,
                   faults, netCalls, ret>>
    /\ UNCHANGED <<cacheVars, skuVars, findVars>>

(***************************************************************************)
(* The response cache: decorator `cached` of example_flask.py              *)
(***************************************************************************)
MaxCacheSize == 500     \* `if len(_cache) > 500`
PricesTtl == 600        \* @cached(ttl=600) of get_prices
SearchTtl == 3600       \* @cached(ttl=3600) of search_product

MaxSeqRequests == 3     \* requests served one after another, by one thread
MaxConcRequests == 2    \* requests served concurrently, each by its own thread

Threads == 1..MaxConcRequests

\* cache_key = f"{request.path}?{query}": the endpoint and the sku
CacheKey(kind, sku) == [kind |-> kind, sku |-> sku]

\* ttl of the decorator that wraps the endpoint of the key
TtlOf(k) == IF k.kind = "prices" THEN PricesTtl ELSE SearchTtl

\* index of key k in the cache, 0 when absent
IndexOf(c, k) ==
    IF \E i \in 1..Len(c) : c[i].key = k
    THEN CHOOSE i \in 1..Len(c) : c[i].key = k
    ELSE 0

\* variant: an entry that exists is updated in place, its "data" first
StoreEntryInPlace(c, k, data, ts) ==
    IF IndexOf(c, k) = 0 THEN Append(c, [key |-> k, data |-> data, ts |-> ts])
    ELSE [c EXCEPT ![IndexOf(c, k)].data = data]

\* _cache[k] = {"data": data, "ts": ts}: a new key goes last, an old one keeps
\* its place
StoreEntry(c, k, data, ts) ==
    LET e == [key |-> k, data |-> data, ts |-> ts]
    IN  IF IndexOf(c, k) = 0 THEN Append(c, e) ELSE [c EXCEPT ![IndexOf(c, k)] = e]

\* variant: max instead of min
NewestKey(c) ==
    LET i == CHOOSE i \in 1..Len(c) :
                 /\ \A j \in 1..Len(c) : c[i].ts >= c[j].ts
                 /\ \A j \in 1..(i - 1) : c[j].ts < c[i].ts
    IN  c[i].key

\* min(_cache, key=lambda k: _cache[k]["ts"]): the first key, in insertion
\* order, of smallest ts
OldestKey(c) ==
    LET i == CHOOSE i \in 1..Len(c) :
                 /\ \A j \in 1..Len(c) : c[i].ts <= c[j].ts
                 /\ \A j \in 1..(i - 1) : c[j].ts > c[i].ts
    IN  c[i].key

\* del _cache[k]
DeleteKey(c, k) ==
    LET i == IndexOf(c, k)
    IN  SubSeq(c, 1, i - 1) \o SubSeq(c, i + 1, Len(c))

\* variant: <= instead of <
IsFreshInclusive(now, e, ttl) == now - e.ts <= ttl

\* variant: no entry ever counts as fresh
IsFreshNever(now, e, ttl) == FALSE

\* the hit test `now - entry["ts"] < ttl`
IsFresh(now, e, ttl) == now - e.ts < ttl

\* the cache left by earlier requests: the price pages of skus 1..n, stored
\* one second apart
PrefilledEntry(i) == [key |-> CacheKey("prices", i), data |-> 0, ts |-> i]
Prefilled(n) == [i \in 1..n |-> PrefilledEntry(i)]

\* keys the requests ask for: the oldest cached one and two new ones
RequestKeys ==
    {CacheKey("prices", 1), CacheKey("prices", MaxCacheSize + 1),
     CacheKey("search", MaxCacheSize + 1)}

\* seconds that pass before a request begins
Deltas == {0, 1, 599, 3599}

\* seconds that pass before a request served concurrently begins
ConcurrentDeltas == {599}

\* lines 38-39; a thread takes its next request once the last one has ended
Begin(t, k, d, limit) ==
    /\ tpc[t] \in {"idle", "done", "failed"}
    /\ requests < limit
    /\ requests' = requests + 1
    /\ clock' = clock + d
    /\ tkey' = [tkey EXCEPT ![t] = k]
    /\ tnow' = [tnow EXCEPT ![t] = clock + d]
    /\ tentry' = [tentry EXCEPT ![t] = None]
    /\ tresult' = [tresult EXCEPT ![t] = 0]
    /\ toldest' = [toldest EXCEPT ![t] = None]
    /\ tanswer' = [tanswer EXCEPT ![t] = None]
    /\ tpc' = [tpc EXCEPT ![t] = "lookup"]
    /\ UNCHANGED <<cache, computed, written, evicted, handled>>
    /\ UNCHANGED <<fetchVars, skuVars, findVars>>

\* line 40: `if cache_key in _cache`
Lookup(t) ==
    /\ tpc[t] = "lookup"
    /\ tpc' = [tpc EXCEPT ![t] = IF IndexOf(cache, tkey[t]) # 0 THEN "read" ELSE "call"]
    /\ UNCHANGED <<cache, clock, computed, requests, tkey, tnow, tentry, tresult,
                   toldest, tanswer, written, evicted, handled>>
    /\ UNCHANGED <<fetchVars, skuVars, findVars>>

\* lines 41-43: entry = _cache[cache_key] (KeyError when the key has gone),
\* then the hit test
ReadEntry(t) ==
    /\ tpc[t] = "read"
    /\ IF IndexOf(cache, tkey[t]) = 0
       THEN /\ tpc' = [tpc EXCEPT ![t] = "failed"]
            /\ tanswer' = [tanswer EXCEPT ![t] = Some("KeyError")]
            /\ tentry' = tentry
       ELSE LET e == cache[IndexOf(cache, tkey[t])]
            IN  /\ tentry' = [tentry EXCEPT ![t] = Some(e)]
                /\ IF IsFresh(tnow[t], e, TtlOf(tkey[t]))
                   THEN /\ tpc' = [tpc EXCEPT ![t] = "done"]
                        /\ tanswer' = [tanswer EXCEPT ![t] = Some(e.data)]
                   ELSE /\ tpc' = [tpc EXCEPT ![t] = "call"]
                        /\ tanswer' = tanswer
    /\ UNCHANGED <<cache, clock, computed, requests, tkey, tnow, tresult,
                   toldest, written, evicted, handled>>
    /\ UNCHANGED <<fetchVars, skuVars, findVars>>

\* how the work behind an endpoint can end
HandlerEnds == {"found", "absent", "raised"}

\* the end taken where the outcome of the handler is not at stake
PlainEnds == {"found"}

\* seconds that pass before a request whose outcome is at stake begins: one
\* step short of the ttl of a price page, two steps past it
OutcomeDeltas == {599}

\* status of the response the endpoint of key k returns (lines 84-85, 87-88
\* and 105 of get_prices; 129 and 132 of search_product, which answers 200
\* with found = false when there is no product)
HandlerStatus(k, end) ==
    IF end = "raised" THEN 500
    ELSE IF end = "absent" /\ k.kind = "prices" THEN 404
    ELSE 200

\* variant: an exception of the adapters leaves the endpoint
EndpointCatchesNothing(k) == FALSE

\* `except Exception` around run_async, in both endpoints
EndpointCatches(k) == TRUE

\* line 44: result = f(*args, **kwargs); each call answers a new value, and
\* an exception the endpoint does not catch leaves the wrapper
CallHandler(t, end) ==
    /\ tpc[t] = "call"
    /\ computed' = computed + 1
    /\ handled' = Append(handled, [key |-> tkey[t],
                                   status |-> HandlerStatus(tkey[t], end),
                                   ts |-> tnow[t]])
    /\ IF end = "raised" /\ ~EndpointCatches(tkey[t])
       THEN /\ tpc' = [tpc EXCEPT ![t] = "failed"]
            /\ tanswer' = [tanswer EXCEPT ![t] = Some("Exception")]
            /\ tresult' = tresult
       ELSE /\ tpc' = [tpc EXCEPT ![t] = "store"]
            /\ tresult' = [tresult EXCEPT ![t] = computed + 1]
            /\ tanswer' = tanswer
    /\ UNCHANGED <<cache, clock, requests, tkey, tnow, tentry, toldest,
                   written, evicted>>
    /\ UNCHANGED <<fetchVars, skuVars, findVars>>

\* line 45
Store(t) ==
    /\ tpc[t] = "store"
    /\ cache' = StoreEntry(cache, tkey[t], tresult[t], tnow[t])
    /\ written' = Append(written, [key |-> tkey[t], data |-> tresult[t], ts |-> tnow[t]])
    /\ tpc' = [tpc EXCEPT ![t] = "size"]
    /\ UNCHANGED <<clock, computed, requests, tkey, tnow, tentry, tresult,
                   toldest, tanswer, evicted, handled>>
    /\ UNCHANGED <<fetchVars, skuVars, findVars>>

\* line 47: `if len(_cache) > 500`, else line 50
CheckSize(t) ==
    /\ tpc[t] = "size"
    /\ IF Len(cache) > MaxCacheSize
       THEN tpc' = [tpc EXCEPT ![t] = "select"] /\ tanswer' = tanswer
       ELSE /\ tpc' = [tpc EXCEPT ![t] = "done"]
            /\ tanswer' = [tanswer EXCEPT ![t] = Some(tresult[t])]
    /\ UNCHANGED <<cache, clock, computed, requests, tkey, tnow, tentry, tresult,
                   toldest, written, evicted, handled>>
    /\ UNCHANGED <<fetchVars, skuVars, findVars>>

\* line 48
SelectOldest(t) ==
    /\ tpc[t] = "select"
    /\ toldest' = [toldest EXCEPT ![t] = Some(OldestKey(cache))]
    /\ tpc' = [tpc EXCEPT ![t] = "delete"]
    /\ UNCHANGED <<cache, clock, computed, requests, tkey, tnow, tentry, tresult,
                   tanswer, written, evicted, handled>>
    /\ UNCHANGED <<fetchVars, skuVars, findVars>>

\* lines 49-50: del _cache[oldest_key] (KeyError when the key has gone)
DeleteOldest(t) ==
    /\ tpc[t] = "delete"
    /\ IF IndexOf(cache, toldest[t][1]) = 0
       THEN /\ tpc' = [tpc EXCEPT ![t] = "failed"]
            /\ tanswer' = [tanswer EXCEPT ![t] = Some("KeyError")]
            /\ UNCHANGED <<cache, evicted>>
       ELSE /\ cache' = DeleteKey(cache, toldest[t][1])
            /\ evicted' = Append(evicted, cache[IndexOf(cache, toldest[t][1])])
            /\ tpc' = [tpc EXCEPT ![t] = "done"]
            /\ tanswer' = [tanswer EXCEPT ![t] = Some(tresult[t])]
    /\ UNCHANGED <<clock, computed, requests, tkey, tnow, tentry, tresult,
                   toldest, written, handled>>
    /\ UNCHANGED <<fetchVars, skuVars, findVars>>

\* no request in flight, the cache holding the n entries of earlier requests
CacheIdle(n) ==
    /\ cache = Prefilled(n)
    /\ clock = n
    /\ computed = 0
    /\ requests = 0
    /\ tpc = [t \in Threads |-> "idle"]
    /\ tkey = [t \in Threads |-> CacheKey("prices", 1)]
    /\ tnow = [t \in Threads |-> 0]
    /\ tentry = [t \in Threads |-> None]
    /\ tresult = [t \in Threads |-> 0]
    /\ toldest = [t \in Threads |-> None]
    /\ tanswer = [t \in Threads |-> None]
    /\ written = <<>>
    /\ evicted = <<>>
    /\ handled = <<>>

(***************************************************************************)
(* SKUs: a SKU is the sequence of its characters                           *)
(***************************************************************************)
MaxSkuLen == 3        \* longest SKU of a request

\* a lower-case letter, its upper case, and the two separators
SkuChars == {"d", "D", " ", "-"}

\* the <sku> of a request path
RawSkus == SeqsUpTo(SkuChars, MaxSkuLen)

\* the "sku" field of a source record (<<>>: missing, read as "")
RecordSkus == {<<>>, <<"D", "-", "D">>, <<"d", " ", "d">>, <<"D", "D">>}

\* str.upper()
Upper(s) == [i \in DOMAIN s |-> IF s[i] = "d" THEN "D" ELSE s[i]]

\* str.replace(a, b) for single characters
Replace(s, a, b) == [i \in DOMAIN s |-> IF s[i] = a THEN b ELSE s[i]]

\* str.strip(): leading and trailing whitespace removed
RECURSIVE Strip(_)
Strip(s) ==
    IF s = <<>> THEN s
    ELSE IF Head(s) = " " THEN Strip(Tail(s))
    ELSE IF s[Len(s)] = " " THEN Strip(SubSeq(s, 1, Len(s) - 1))
    ELSE s

\* sku = sku.strip().upper() of SneakerPriceFetcher.get_prices
NormalizeSku(raw) == Upper(Strip(raw))

\* result_sku == sku.upper().replace(" ", "-") of search_by_sku
GoatSkuMatches(record_sku, given) ==
    Upper(Replace(record_sku, " ", "-")) = Replace(Upper(given), " ", "-")

\* p.get("sku", "").replace(" ", "-").upper() == sku.upper() of search
KicksSkuMatches(record_sku, given) ==
    Upper(Replace(record_sku, " ", "-")) = Upper(given)

\* rd.get("sku", "").replace(" ", "-").upper() == sku.upper()
ConstructorSkuMatches(record_sku, given) ==
    Upper(Replace(record_sku, " ", "-")) = Upper(given)

\* the candidates of a search answer whose records carry the skus `recs`; the
\* slug of a record tells its place in the answer
GoatResultsOf(recs, given) ==
    [i \in DOMAIN recs |->
        [match |-> GoatSkuMatches(recs[i], given), slug |-> ToString(i)]]

KicksProductsOf(recs, given) ==
    [i \in DOMAIN recs |-> [match |-> KicksSkuMatches(recs[i], given), sku |-> recs[i]]]

ConstructorResultsOf(recs, given) ==
    [i \in DOMAIN recs |->
        [match |-> ConstructorSkuMatches(recs[i], given), sku |-> recs[i]]]

\* the sku of the record each search selects (None without candidates)
GoatSelectedSku(recs, given) ==
    IF recs = <<>> THEN None
    ELSE LET slg == GoatSelectSlug(GoatResultsOf(recs, given))
         IN  Some(recs[CHOOSE i \in DOMAIN recs : ToString(i) = slg])

KicksSelectedSku(recs, given) ==
    LET p == KicksSelectProduct(KicksProductsOf(recs, given))
    IN  IF p = None THEN None ELSE Some(p[1].sku)

ConstructorSelectedSku(recs, given) ==
    IF recs = <<>> THEN None
    ELSE Some(ConstructorSelectProduct(ConstructorResultsOf(recs, given)).sku)

\* the sku field of the result each source builds from a record of sku s
GoatResultSku(s) == Replace(s, " ", "-")
KicksResultSku(s) == s
ConstructorResultSku(s) == Replace(s, " ", "-")

ResultSku(a, s) ==
    CASE a = "goat" -> GoatResultSku(s)
      [] a = "kicksdb" -> KicksResultSku(s)
      [] OTHER -> ConstructorResultSku(s)

Searched(a, given, recs, sel) ==
    Some([adapter |-> a, given |-> given, records |-> recs, selected |-> sel])

\* line 584
SkuNormalize ==
    /\ spc = "start"
    /\ skuNorm' = Some(NormalizeSku(skuIn))
    /\ spc' = "normalized"
    /\ UNCHANGED <<skuIn, search, resultSku>>
    /\ UNCHANGED <<fetchVars, cacheVars, findVars>>

\* search_by_sku, called by get_prices with the normalized sku or, direct, by
\* the /api/search endpoint with the sku of the path
GoatSearchSelect(recs, direct) ==
    /\ IF direct THEN spc = "start" ELSE spc = "normalized"
    /\ LET given == IF direct THEN skuIn ELSE skuNorm[1]
       IN  search' = Searched("goat", given, recs, GoatSelectedSku(recs, given))
    /\ spc' = "selected"
    /\ UNCHANGED <<skuIn, skuNorm, resultSku>>
    /\ UNCHANGED <<fetchVars, cacheVars, findVars>>

\* KicksDBClient.search, called with the normalized sku
KicksSearchSelect(recs) ==
    /\ spc = "normalized"
    /\ search' = Searched("kicksdb", skuNorm[1], recs, KicksSelectedSku(recs, skuNorm[1]))
    /\ spc' = "selected"
    /\ UNCHANGED <<skuIn, skuNorm, resultSku>>
    /\ UNCHANGED <<fetchVars, cacheVars, findVars>>

\* the selection of ConstructorIOClient.get_prices, called with the normalized sku
ConstructorSearchSelect(recs) ==
    /\ spc = "normalized"
    /\ search' = Searched("constructor", skuNorm[1], recs,
                          ConstructorSelectedSku(recs, skuNorm[1]))
    /\ spc' = "selected"
    /\ UNCHANGED <<skuIn, skuNorm, resultSku>>
    /\ UNCHANGED <<fetchVars, cacheVars, findVars>>

\* the source builds its SneakerPriceResult from the record it selected
BuildResultSku ==
    /\ spc = "selected"
    /\ skuNorm # None
    /\ search[1].selected # None
    /\ resultSku' = Some(ResultSku(search[1].adapter, search[1].selected[1]))
    /\ spc' = "built"
    /\ UNCHANGED <<skuIn, skuNorm, search>>
    /\ UNCHANGED <<fetchVars, cacheVars, findVars>>

\* no sku handled yet
SkuIdle ==
    /\ skuNorm = None
    /\ spc = "start"
    /\ search = None
    /\ resultSku = None

(***************************************************************************)
(* GoatScraper._deep_find                                                  *)
(*   A node of the JSON tree is [kind, tag, sat, kids]: a "dict" (kids: its *)
(*   values in stored order), a "list" (kids: its items) or a "scalar";     *)
(*   sat tells whether the predicate holds of the node; tag tells nodes     *)
(*   apart.  A scalar of tag "zero" is falsy (0, "", None, False).          *)
(***************************************************************************)
DeepFindMaxDepth == 8     \* `if depth > 8`
DeepFindMaxItems == 20    \* `data[:20]`

MaxChain == 9             \* most containers nested around the nodes of a tree

Node(kind, tag, sat, kids) == [kind |-> kind, tag |-> tag, sat |-> sat, kids |-> kids]

\* bool(node): an empty dict, an empty list and a zero scalar are falsy
NodeTruthy(n) == IF n.kind = "scalar" THEN n.tag # "zero" ELSE n.kids # <<>>

\* data[:n]
FirstItems(items, n) == SubSeq(items, 1, IF Len(items) < n THEN Len(items) ELSE n)

\* variant: the bound is reached one level earlier
TooDeepInclusive(depth) == depth >= DeepFindMaxDepth

\* `if depth > 8`
TooDeep(depth) == depth > DeepFindMaxDepth

RECURSIVE DeepFind(_, _)
RECURSIVE DeepFindIn(_, _)
\* the two loops of _deep_find: the first truthy result among the items
DeepFindIn(items, depth) ==
    IF items = <<>> THEN None
    ELSE LET res == DeepFind(Head(items), depth)
         IN  IF res # None /\ NodeTruthy(res[1]) THEN res
             ELSE DeepFindIn(Tail(items), depth)

DeepFind(data, depth) ==
    IF TooDeep(depth) THEN None
    ELSE IF data.sat THEN Some(data)
    ELSE IF data.kind = "dict" THEN DeepFindIn(data.kids, depth + 1)
    ELSE IF data.kind = "list"
    THEN DeepFindIn(FirstItems(data.kids, DeepFindMaxItems), depth + 1)
    ELSE None

\* the trees searched: leaves, alone or by two, under nested containers
Filler == Node("scalar", "filler", FALSE, <<>>)

LeafNodes(tag) ==
    {Node("scalar", tag, FALSE, <<>>),               \* a scalar, not a match
     Node("dict", tag, TRUE, <<Filler>>),            \* a mapping that matches
     Node("dict", tag, TRUE, <<>>),                  \* an empty mapping that matches
     Node("scalar", "zero", TRUE, <<>>)}             \* a zero that matches

Containers == {"dict", "list"}

\* a container of two nodes, the first one level deeper when `deep`
Pairs ==
    {Node(k, "pair", FALSE,
          <<IF deep THEN Node("dict", "inner", FALSE, <<a>>) ELSE a, b>>) :
        k \in Containers, deep \in BOOLEAN,
        a \in LeafNodes("first"), b \in LeafNodes("second")}

\* a container whose last item comes after n others
Wide ==
    {Node(k, "wide", FALSE, [i \in 1..(n + 1) |-> IF i <= n THEN Filler ELSE a]) :
        k \in Containers, n \in {DeepFindMaxItems - 1, DeepFindMaxItems},
        a \in LeafNodes("last")}

RECURSIVE Chain(_, _, _)
\* node n under d nested containers of kind k
Chain(d, k, n) == IF d = 0 THEN n ELSE Node(k, "chain", FALSE, <<Chain(d - 1, k, n)>>)

Trees ==
    {Chain(d, k, n) : d \in 0..MaxChain, k \in Containers,
                      n \in LeafNodes("only") \cup Pairs \cup Wide}

\* self._deep_find(data, predicate)
DeepFindCall ==
    /\ dpc = "start"
    /\ found' = DeepFind(tree, 0)
    /\ dpc' = "done"
    /\ UNCHANGED tree
    /\ UNCHANGED <<fetchVars, cacheVars, skuVars>>

\* no search made
FindIdle ==
    /\ found = None
    /\ dpc = "start"

(***************************************************************************)
(* Specification of one price request                                      *)
(***************************************************************************)
\* no request in flight
FetchIdle ==
    /\ fpc = "idle"
    /\ result = None
    /\ slug = ""
    /\ product = None
    /\ calls = <<>>
    /\ returned = <<>>
    /\ outcomes = [a \in Sources |-> None]
    /\ faults = {}
    /\ netCalls = <<>>
    /\ ret = None
    /\ response = 0
    /\ body = None

FetchInit ==
    /\ apiKey \in {"", "kd_live_key"}
    /\ FetchIdle

Init == FetchInit /\ CacheIdle(0) /\ skuIn = <<>> /\ SkuIdle /\ tree = Filler /\ FindIdle

FetchNext ==
    \/ \E f \in BOOLEAN : FetchBegin(f)
    \/ \E o \in GoatSearchOutcomes : GoatSearchStep(o)
    \/ \E o \in GoatPageOutcomes : GoatPageStep(o)
    \/ \E o \in KicksSearchOutcomes : KicksSearchStep(o)
    \/ \E o \in KicksPricesOutcomes : KicksPricesStep(o)
    \/ \E o \in ConstructorOutcomes : ConstructorStep(o)
    \/ \E size \in SizeArgs : Respond(size)

Next == FetchNext

Spec == Init /\ [][Next]_vars

(***************************************************************************)
(* Specifications of the response cache                                    *)
(***************************************************************************)
\* the cache has filled up
CacheInit ==
    /\ CacheIdle(MaxCacheSize)
    /\ apiKey = ""
    /\ FetchIdle
    /\ skuIn = <<>>
    /\ SkuIdle
    /\ tree = Filler
    /\ FindIdle

\* requests served by concurrent threads: the i-th request by thread i
CacheNext ==
    \E t \in Threads :
        \/ \E k \in RequestKeys, d \in ConcurrentDeltas :
                t = requests + 1 /\ Begin(t, k, d, MaxConcRequests)
        \/ Lookup(t)
        \/ ReadEntry(t)
        \/ \E end \in PlainEnds : CallHandler(t, end)
        \/ Store(t)
        \/ CheckSize(t)
        \/ SelectOldest(t)
        \/ DeleteOldest(t)

SpecCache == CacheInit /\ [][CacheNext]_vars

\* requests served one after another, by one thread
SeqNext ==
    \/ \E k \in RequestKeys, d \in Deltas : Begin(1, k, d, MaxSeqRequests)
    \/ Lookup(1)
    \/ ReadEntry(1)
    \/ \E end \in PlainEnds : CallHandler(1, end)
    \/ Store(1)
    \/ CheckSize(1)
    \/ SelectOldest(1)
    \/ DeleteOldest(1)

SpecSeq == CacheInit /\ [][SeqNext]_vars

\* requests served one after another, each handler call ending in any way
OutcomesNext ==
    \/ \E k \in RequestKeys, d \in OutcomeDeltas : Begin(1, k, d, MaxSeqRequests)
    \/ Lookup(1)
    \/ ReadEntry(1)
    \/ \E end \in HandlerEnds : CallHandler(1, end)
    \/ Store(1)
    \/ CheckSize(1)
    \/ SelectOldest(1)
    \/ DeleteOldest(1)

SpecOutcomes == CacheInit /\ [][OutcomesNext]_vars

(***************************************************************************)
(* Specification of the sku of a request                                   *)
(***************************************************************************)
SkuInit ==
    /\ skuIn \in RawSkus
    /\ SkuIdle
    /\ apiKey = "kd_live_key"
    /\ FetchIdle
    /\ CacheIdle(0)
    /\ tree = Filler
    /\ FindIdle

SkuNext ==
    \/ SkuNormalize
    \/ \E recs \in SeqsUpTo(RecordSkus, MaxCandidates), direct \in BOOLEAN :
            GoatSearchSelect(recs, direct)
    \/ \E recs \in SeqsUpTo(RecordSkus, MaxCandidates) : KicksSearchSelect(recs)
    \/ \E recs \in SeqsUpTo(RecordSkus, MaxCandidates) : ConstructorSearchSelect(recs)
    \/ BuildResultSku

SpecSku == SkuInit /\ [][SkuNext]_vars

(***************************************************************************)
(* Specification of one deep search                                        *)
(***************************************************************************)
FindInit ==
    /\ tree \in Trees
    /\ FindIdle
    /\ apiKey = ""
    /\ FetchIdle
    /\ CacheIdle(0)
    /\ skuIn = <<>>
    /\ SkuIdle

FindNext == DeepFindCall

SpecFind == FindInit /\ [][FindNext]_vars

(***************************************************************************)
(* Properties of the fallback orchestrator                                 *)
(***************************************************************************)
Priority(a) ==
    CASE a = "goat" -> 1
      [] a = "kicksdb" -> 2
      [] OTHER -> 3

HasReturned(a) == \E i \in 1..Len(returned) : returned[i] = a
WasCalled(a) == \E i \in 1..Len(calls) : calls[i] = a

\* a complete result has at least one size, a partial result has none
Complete(r) == r # None /\ DOMAIN r[1].prices_by_size # {}
Partial(r) == r # None /\ DOMAIN r[1].prices_by_size = {}

Finished == fpc \in {"returned", "responded"}

\* C1: once a source has returned a complete result, get_prices returns that
\* very result and no source of lower priority is invoked in the request.
C1_StopOnComplete ==
    \A a \in Sources :
        HasReturned(a) /\ Complete(outcomes[a]) =>
            /\ Finished
            /\ ret = outcomes[a]
            /\ \A i \in 1..Len(calls) : Priority(calls[i]) <= Priority(a)

C1_Witness ==
    /\ fpc = "responded"
    /\ calls = <<"goat", "kicksdb">>
    /\ Partial(outcomes["goat"])
    /\ Complete(outcomes["kicksdb"])
    /\ ret = outcomes["kicksdb"]

\* C2 (as claimed): when no source gave a complete result and at least one
\* gave a partial result, get_prices returns a partial result, not None.
C2_PartialNeverLost ==
    ( /\ Finished
      /\ \A a \in Sources : ~(HasReturned(a) /\ Complete(outcomes[a]))
      /\ \E a \in Sources : HasReturned(a) /\ Partial(outcomes[a]) )
    => Partial(ret)

\* C3: when a higher-priority source A gave a partial result and a
\* lower-priority source B a complete one, get_prices returns B's result with
\* lowest_ask = B's own when B has one, else A's.
C3_BackfillIntoComplete ==
    \A a, b \in Sources :
        ( /\ Finished
          /\ Priority(a) < Priority(b)
          /\ HasReturned(a) /\ Partial(outcomes[a])
          /\ HasReturned(b) /\ Complete(outcomes[b]) )
        => /\ ret # None
           /\ ret[1] = [outcomes[b][1] EXCEPT !.lowest_ask =
                            IF @ # None THEN @ ELSE outcomes[a][1].lowest_ask]

C3_Witness ==
    /\ Finished
    /\ Partial(outcomes["goat"])
    /\ Complete(outcomes["kicksdb"])
    /\ outcomes["kicksdb"][1].lowest_ask = None
    /\ ret = outcomes["kicksdb"]

\* C4: when every source invoked in the request returned None, get_prices
\* returns None and the endpoint answers 404 (not found), not 500.
C4_AllAbsentNotFound ==
    ( /\ Finished
      /\ calls # <<>>
      /\ \A a \in Sources : outcomes[a] = None )
    => /\ ret = None
       /\ fpc = "responded" => response = 404

C4_Witness ==
    /\ fpc = "responded"
    /\ returned = <<"goat", "kicksdb", "constructor">>
    /\ \A a \in Sources : outcomes[a] = None
    /\ response = 404

\* C5: the sources are invoked in the order goat, kicksdb, constructor, each
\* at most once, and a source is invoked only after the previous one returned.
C5_SequentialInOrder ==
    /\ \A i, j \in 1..Len(calls) : i < j => Priority(calls[i]) < Priority(calls[j])
    /\ calls # <<>> => calls[1] = "goat"
    /\ Len(returned) <= Len(calls)
    /\ Len(calls) <= Len(returned) + 1
    /\ returned = SubSeq(calls, 1, Len(returned))

C5_Witness ==
    /\ calls = <<"goat", "kicksdb", "constructor">>
    /\ returned = calls
    /\ \E f \in faults : f.adapter = "goat"
    /\ \E f \in faults : f.adapter = "kicksdb"

\* the source invoked right after a, if any
Follows(a, b) == \E i \in 1..(Len(calls) - 1) : calls[i] = a /\ calls[i + 1] = b

\* no exception leaves a source: get_prices only raises before any source ran
NoSourceRaises == fpc = "raised" => calls = <<>>

\* the orchestrator went on to the next source after a returned
WentOn(a) ==
    a # "constructor" =>
        Follows(a, IF a = "goat" /\ apiKey # "" THEN "kicksdb" ELSE "constructor")

\* C6 (as claimed): after any failed outbound call, in the search or in the
\* detail phase, the source returns None, raises nothing, and the
\* orchestrator goes on to the next source.
C6_FailureIsAbsent ==
    /\ NoSourceRaises
    /\ \A f \in faults :
        /\ HasReturned(f.adapter)
        /\ outcomes[f.adapter] = None
        /\ WentOn(f.adapter)

\* C6 (amended): as claimed, except that KicksDB answers a non-success status
\* of its detail call with a partial result built from the search product.
C6_FailureIsAbsentOrKicksFallback ==
    /\ NoSourceRaises
    /\ \A f \in faults :
        /\ HasReturned(f.adapter)
        /\ IF f.adapter = "kicksdb" /\ f.phase = "detail" /\ f.kind = NonSuccess
           THEN outcomes[f.adapter] =
                    Some(SneakerPriceResult("kicksdb", "", EmptyDict, product[1].min_price))
           ELSE outcomes[f.adapter] = None
        /\ WentOn(f.adapter)

C6_Witness ==
    /\ [adapter |-> "goat", phase |-> "detail", kind |-> "malformed_payload"] \in faults
    /\ [adapter |-> "kicksdb", phase |-> "detail", kind |-> NonSuccess] \in faults
    /\ outcomes["goat"] = None
    /\ Partial(outcomes["kicksdb"])
    /\ calls = <<"goat", "kicksdb", "constructor">>

(***************************************************************************)
(* Properties of the response cache                                        *)
(***************************************************************************)
Quiescent == \A t \in Threads : tpc[t] \in {"idle", "done", "failed"}

\* C7 (as claimed): whatever the interleaving of the requests, once no
\* request is in flight the cache holds at most 500 entries.
C7_CountWithinCap == Quiescent => Len(cache) <= 500

\* e is an entry as one single write stored it
IsOneWrite(e) ==
    \/ e.key.sku \in 1..MaxCacheSize /\ e = PrefilledEntry(e.key.sku)
    \/ \E i \in 1..Len(written) : written[i] = e

\* C8: whatever the interleaving, the entry a request has read is the entry
\* of its key as one single write stored it, value and timestamp together,
\* and a hit answers that value.
C8_NoTornRead ==
    \A t \in Threads :
        tentry[t] # None =>
            /\ tentry[t][1].key = tkey[t]
            /\ IsOneWrite(tentry[t][1])
            /\ tpc[t] = "done" /\ tresult[t] = 0 => tanswer[t] = Some(tentry[t][1].data)

C8_Witness ==
    \E t, u \in Threads :
        /\ t # u
        /\ tpc[u] \in {"size", "select", "delete"}
        /\ tkey[t] = tkey[u]
        /\ tentry[t] # None
        /\ tentry[t][1].data = tresult[u]
        /\ tentry[t][1].ts = tnow[u]
        /\ tpc[t] = "done"

\* the writes so far were of keys the cache never held, each at a later time
DistinctIncreasing ==
    /\ \A i \in 1..Len(written) : written[i].key.sku > MaxCacheSize
    /\ \A i, j \in 1..Len(written) : i < j => written[i].key # written[j].key
    /\ \A i, j \in 1..Len(written) : i < j => written[i].ts < written[j].ts
    /\ \A i \in 1..Len(written) : written[i].ts > MaxCacheSize

\* C9: after N > 500 writes of distinct keys, one after another at strictly
\* increasing times, the N - 500 entries of smallest ts have been evicted, in
\* that order, and 500 entries are left.
C9_EvictsOldest ==
    (tpc[1] \in {"idle", "done"} /\ DistinctIncreasing)
    => /\ Len(cache) = 500
       /\ Len(evicted) = Len(written)
       /\ evicted \o cache = Prefilled(MaxCacheSize) \o written

C9_Witness ==
    /\ tpc[1] = "done"
    /\ DistinctIncreasing
    /\ Len(written) = 2
    /\ evicted = <<PrefilledEntry(1), PrefilledEntry(2)>>

\* C10: a request for a key with a stored entry, served alone: when
\* now - ts < ttl it answers the stored value without calling the handler and
\* leaves the entry as it is; otherwise it calls the handler, answers the new
\* value and stores it with ts = now.  ttl is 600 for prices, 3600 for search.
C10_TtlHitOrRecompute ==
    (tpc[1] = "done" /\ tentry[1] # None) =>
        LET e == tentry[1][1]
            ttl == IF tkey[1].kind = "prices" THEN 600 ELSE 3600
            stored == cache[IndexOf(cache, tkey[1])]
        IN  /\ IndexOf(cache, tkey[1]) # 0
            /\ IF tnow[1] - e.ts < ttl
               THEN /\ tresult[1] = 0
                    /\ tanswer[1] = Some(e.data)
                    /\ stored = e
               ELSE /\ tresult[1] = computed
                    /\ tresult[1] # e.data
                    /\ tanswer[1] = Some(tresult[1])
                    /\ stored = [key |-> tkey[1], data |-> tresult[1], ts |-> tnow[1]]

C10_Witness ==
    /\ tpc[1] = "done"
    /\ tkey[1].kind = "search"
    /\ tentry[1] # None
    /\ tnow[1] - tentry[1][1].ts = 3600
    /\ tanswer[1] = Some(computed)

(***************************************************************************)
(* Properties of the results                                               *)
(***************************************************************************)
\* every price of the per-size entries of a prices_by_size dict
EntryPrices(pbs) == UNION {{pbs[s][src] : src \in DOMAIN pbs[s]} : s \in DOMAIN pbs}

\* C11 (as claimed): a returned result that has per-size entries carries, as
\* lowest_ask, the minimum price found among those entries.
C11_LowestAskIsMin ==
    Finished /\ Complete(ret) =>
        /\ EntryPrices(ret[1].prices_by_size) # {}
        /\ ret[1].lowest_ask = Some(Min(EntryPrices(ret[1].prices_by_size)))

\* source a has made the outbound call of its phase
MadeCall(a, phase) == \E i \in 1..Len(netCalls) : netCalls[i] = Outbound(a, phase)

\* C13 (as claimed): when GOAT or KicksDB has entered its detail phase (the
\* search matched a candidate) and that phase failed or gave no per-size
\* data, the source returns a partial result, not None; that of KicksDB
\* carries the min_price of the search product.
C13_DetailFailureGivesPartial ==
    \A a \in {"goat", "kicksdb"} :
        HasReturned(a) /\ MadeCall(a, "detail") /\ ~Complete(outcomes[a]) =>
            /\ Partial(outcomes[a])
            /\ a = "kicksdb" => outcomes[a][1].lowest_ask = product[1].min_price

\* C16: without a KicksDB key no outbound call of KicksDB is ever made,
\* KicksDB contributes None, and what get_prices returns is what GOAT and
\* Constructor.io alone determine.
C16_NoKeyNoKicksCall ==
    apiKey = "" =>
        /\ ~MadeCall("kicksdb", "search") /\ ~MadeCall("kicksdb", "detail")
        /\ outcomes["kicksdb"] = None
        /\ Finished =>
              ret = IF HasPrices(outcomes["goat"]) THEN outcomes["goat"]
                    ELSE Merge(outcomes["goat"], outcomes["constructor"])

C16_Witness ==
    /\ apiKey = ""
    /\ fpc = "responded"
    /\ netCalls = <<Outbound("goat", "search"), Outbound("goat", "detail"),
                    Outbound("constructor", "search")>>
    /\ Partial(outcomes["goat"])
    /\ outcomes["constructor"] # None
    /\ ret # None

\* C19: Constructor.io is asked by one search call and no detail call, and a
\* result it returns has no per-size prices.
C19_ConstructorSearchOnly ==
    /\ ~MadeCall("constructor", "detail")
    /\ Cardinality({i \in 1..Len(netCalls) : netCalls[i].adapter = "constructor"})
           = IF WasCalled("constructor") /\ fpc # "constructor" THEN 1 ELSE 0
    /\ outcomes["constructor"] # None => Partial(outcomes["constructor"])

C19_Witness ==
    /\ HasReturned("constructor")
    /\ outcomes["constructor"] # None
    /\ outcomes["constructor"][1].lowest_ask = Some(115000)
    /\ netCalls[Len(netCalls)] = Outbound("constructor", "search")

\* C18 (as claimed): the answer narrowed to a size says available with, as
\* prices, exactly what prices_by_size holds for the size when the size is a
\* key of prices_by_size, and not available, without prices, when it is not.
C18_SizeScopedExact ==
    fpc = "responded" /\ body # None /\ body[1].scoped # None =>
        LET x == body[1].scoped[1]
            pbs == ret[1].prices_by_size
        IN  IF x.size \in DOMAIN pbs
            THEN x.available /\ x.prices = Some(pbs[x.size])
            ELSE ~x.available /\ x.prices = None

(***************************************************************************)
(* Properties of the sku                                                   *)
(***************************************************************************)
\* the normalized form of a SKU: uppercase, spaces replaced with hyphens
CanonicalSku(s) == Upper(Replace(s, " ", "-"))

\* C12 (as claimed): when the candidates of a search hold a record whose
\* normalized sku equals the normalized sku the search was given, the record
\* selected is such a record.
C12_ExactMatchSelected ==
    search # None =>
        LET x == search[1]
        IN  (\E i \in DOMAIN x.records :
                CanonicalSku(x.records[i]) = CanonicalSku(x.given))
            => /\ x.selected # None
               /\ CanonicalSku(x.selected[1]) = CanonicalSku(x.given)

\* C14 (as claimed): the sku get_prices hands to the sources is the sku of the
\* request trimmed, uppercased and with its spaces replaced with hyphens.
C14_SkuNormalizedForAdapters ==
    skuNorm # None =>
        /\ skuNorm[1] = CanonicalSku(Strip(skuIn))
        /\ search # None => search[1].given = CanonicalSku(Strip(skuIn))

\* C15 (as claimed): the sku field of a result is in canonical form,
\* uppercase and without spaces, whatever the sku of the source record.
C15_ResultSkuCanonical ==
    resultSku # None => resultSku[1] = CanonicalSku(resultSku[1])

(***************************************************************************)
(* Properties of the deep search                                           *)
(***************************************************************************)
RECURSIVE Walk(_, _, _)
RECURSIVE WalkItems(_, _, _)
\* the nodes under n in pre-order, each with its depth; when `bounded`, no
\* node deeper than 8 and only the first 20 items of a list
WalkItems(items, depth, bounded) ==
    IF items = <<>> THEN <<>>
    ELSE Walk(Head(items), depth, bounded) \o WalkItems(Tail(items), depth, bounded)

Walk(n, depth, bounded) ==
    IF bounded /\ depth > 8 THEN <<>>
    ELSE <<[node |-> n, depth |-> depth]>>
         \o WalkItems(IF bounded /\ n.kind = "list" THEN FirstItems(n.kids, 20)
                      ELSE n.kids,
                      depth + 1, bounded)

\* the places, in a walk, of the nodes the predicate holds of
Matches(walk) == {i \in 1..Len(walk) : walk[i].node.sat}

FirstMatch(n) ==
    LET seen == Walk(n, 0, TRUE)
    IN  IF Matches(seen) = {} THEN None ELSE Some(seen[Min(Matches(seen))].node)

\* C20 (as claimed): the search returns the first node, in pre-order, of the
\* bounded walk that satisfies the predicate, and None only when there is none.
C20_FirstPreorderMatch == dpc = "done" => found = FirstMatch(tree)

(***************************************************************************)
(* Further properties of the results                                       *)
(***************************************************************************)
\* C21 (as claimed): a result get_prices returns as complete, stopping the
\* chain at its source, holds at least one size with a price: some size of
\* prices_by_size maps to a non-empty source-to-price mapping.
C21_CompleteHasPrice ==
    \A a \in Sources :
        ( /\ Finished
          /\ HasReturned(a) /\ Complete(outcomes[a])
          /\ ret = outcomes[a] )
        => \E s \in DOMAIN ret[1].prices_by_size :
               DOMAIN ret[1].prices_by_size[s] # {}

(***************************************************************************)
(* Further properties of the response cache                                *)
(***************************************************************************)
\* the entry of key k in cache c (k is a key of c)
EntryOf(c, k) == c[IndexOf(c, k)]

\* thread t reads, in this step, an entry of its key that has not expired
ReadsValidEntry(t) ==
    /\ tpc[t] = "read"
    /\ tpc'[t] # "read"
    /\ IndexOf(cache, tkey[t]) # 0
    /\ tnow[t] - EntryOf(cache, tkey[t]).ts < TtlOf(tkey[t])

\* C22: a request that finds a valid entry ends at once with the data of the
\* entry; the handler is not called and the cache is left as it was, the
\* timestamp of the entry included.
C22_HitChangesNothing ==
    [][ \A t \in Threads :
            ReadsValidEntry(t) =>
                /\ tpc'[t] = "done"
                /\ tanswer'[t] = Some(EntryOf(cache, tkey[t]).data)
                /\ computed' = computed
                /\ cache' = cache
                /\ written' = written
                /\ evicted' = evicted ]_vars

\* the oldest entry has been read, as a hit, and nothing has changed
C22_Witness ==
    /\ tpc[1] = "done"
    /\ tentry[1] = Some(PrefilledEntry(1))
    /\ tanswer[1] = Some(PrefilledEntry(1).data)
    /\ computed = 0
    /\ cache = Prefilled(MaxCacheSize)

(***************************************************************************)
(* Further properties of the fallback orchestrator                         *)
(***************************************************************************)
\* Constructor.io gave a result while get_prices still held an earlier one
MergedWithEarlier ==
    /\ Finished
    /\ HasReturned("constructor")
    /\ outcomes["constructor"] # None
    /\ result # None

\* C23 (as claimed): when Constructor.io gives a result and an earlier result
\* without sizes is held, get_prices returns the earlier result with every
\* field but lowest_ask as it was, and lowest_ask is replaced by the one of
\* Constructor.io only if it was absent (None).
C23_MergeOnlyLowestAsk ==
    MergedWithEarlier =>
        /\ ret # None
        /\ ret[1] = [result[1] EXCEPT !.lowest_ask =
                        IF @ # None THEN @
                        ELSE outcomes["constructor"][1].lowest_ask]

\* the part of C23 about the other fields
C23_OtherFieldsKept ==
    MergedWithEarlier =>
        /\ ret # None
        /\ [ret[1] EXCEPT !.lowest_ask = None]
               = [result[1] EXCEPT !.lowest_ask = None]

\* status of the answer an entry holds as data (the entries of earlier
\* requests hold successes)
StatusOf(d) == IF d = 0 THEN 200 ELSE handled[d].status

\* handler call i is the last one made for its key
LastHandled(i) ==
    \A j \in (i + 1)..Len(handled) : handled[j].key # handled[i].key

\* the entry that stored the answer of handler call i has been evicted
WasEvicted(i) == \E j \in 1..Len(evicted) : evicted[j].data = i

\* thread t serves a request for the key of handler call i, a call of an
\* earlier request, before the ttl of its answer has elapsed
WithinTtlOf(t, i) ==
    /\ tpc[t] \notin {"idle", "failed"}
    /\ tkey[t] = handled[i].key
    /\ tresult[t] # i
    /\ LastHandled(i)
    /\ tnow[t] - handled[i].ts < TtlOf(tkey[t])
    /\ ~WasEvicted(i)

\* C24: once a handler call has ended in a 404 or 500 answer, a later request
\* for the same key within the ttl is served from the cache: the handler is not
\* called again and the request answers what that call answered.
C24_FailuresCached ==
    \A t \in Threads : \A i \in 1..Len(handled) :
        (handled[i].status \in {404, 500} /\ WithinTtlOf(t, i)) =>
            /\ tpc[t] \in {"lookup", "read", "done"}
            /\ tresult[t] = 0
            /\ tpc[t] = "done" => tanswer[t] = Some(i)

\* a price request ended in a 404 answer, and the next request for the same
\* page, 599 seconds later, has answered it from the cache
C24_Witness ==
    /\ requests = 2
    /\ computed = 1
    /\ Len(handled) = 1
    /\ handled[1].key.kind = "prices"
    /\ handled[1].status = 404
    /\ tpc[1] = "done"
    /\ tnow[1] = handled[1].ts + 599
    /\ tanswer[1] = Some(1)
    /\ StatusOf(tentry[1][1].data) = 404

\* C25 (as claimed): however the requests interleave, the read of line 41 and
\* the deletion of line 49 find the key they act on, so that no request fails
\* in the cache.
C25_StepsFindTheirKey ==
    \A t \in Threads :
        /\ tpc[t] = "read" => IndexOf(cache, tkey[t]) # 0
        /\ tpc[t] = "delete" => IndexOf(cache, toldest[t][1]) # 0
        /\ tpc[t] # "failed"

============================================================================
